---- MODULE Spec2Model ----
(***************************************************************************)
(* The terrain system of bevy_generative (src/terrain.rs).                *)
(*                                                                         *)
(* generate_terrain is a Bevy system registered in the Update schedule.    *)
(* On every tick it walks the query of terrain entities and, for each,     *)
(* rebuilds the gradient image and the mesh from the Terrain component.    *)
(*                                                                         *)
(* Numbers.  f32/f64 values are kept as exact rationals:                   *)
(*   - noise values and sea_percent are integers (percent),                *)
(*   - height_value is kept in hundredths (an integer 0..100),             *)
(*   - a coordinate is a pair <<numerator, denominator>>; a zero           *)
(*     denominator stands for the NaN of 0.0 / 0.0.                        *)
(***************************************************************************)
EXTENDS Integers, Sequences, FiniteSets, TLC

\* ------------------------------------------------------------------ bounds
MaxWidth == 1
MaxDepth == 2
MaxRes == 2
MaxTicks == 2

\* ------------------------------------------------------- input value sets
\* height_exponent values explored (non-negative integers).
Exponents == {0, 1, 2, 3}
\* sea_percent values explored.
SeaLevels == {0, 50}
\* The values the noise collaborator hands out, nominally in [0,100].
NoiseLevels == <<0, 30, 50, 80, 100>>
\* Region lists explored: none, and two control points.
RegionLists ==
  { <<>>,
    << [position |-> 0, color |-> <<0, 0, 255, 255>>],
       [position |-> 100, color |-> <<255, 255, 255, 255>>] >> }
\* noise.gradient.size, the size of the rasterized gradient image.
GradientSize == <<4, 1>>
\* The grid generate_noise_map returns is described twice: with the
\* dimensions of noise.size ("derived_size"), and with one scalar per
\* vertex of the mesh grid ("per_vertex").
NoiseGridShapes == {"derived_size", "per_vertex"}
\* The numbers of terrain entities explored.
WorldSizes == {1, 2}

VARIABLES
  terrains,     \* the Terrain component of each entity of the query
  mesh_handle,  \* the Handle<Mesh> component of each entity
  materials,    \* the StandardMaterial asset of each entity
  meshes,       \* Assets<Mesh>: the mesh each live handle stands for
  images,       \* Assets<Image>: the image each live handle stands for
  next_id,      \* the next fresh asset id
  cursor,       \* the entity the running system is at; 0 when not running
  tick,         \* Update ticks begun
  panicked,     \* the panic message that ended the app, or "none"
  failed_at,    \* the entity whose rebuild panicked, or 0
  rebuilt,      \* the entities rebuilt in the current tick
  noise_calls,  \* calls of generate_noise_map, per entity
  exported,     \* calls of export_terrain, per entity
  runs          \* per entity, what its last pass through the loop body saw

vars == << terrains, mesh_handle, materials, meshes, images, next_id, cursor,
           tick, panicked, failed_at, rebuilt, noise_calls, exported, runs >>

\* ------------------------------------------------------------- arithmetic
RECURSIVE Pow(_, _)
Pow(b, e) == IF e = 0 THEN 1 ELSE b * Pow(b, e - 1)

Max(a, b) == IF a >= b THEN a ELSE b

\* ------------------------------------------------------ noise collaborator
\* One value of the noise field.
NoiseValue(seed, i, j) == NoiseLevels[((seed + i + 2 * j) % Len(NoiseLevels)) + 1]

\* generate_noise_map(&terrain.noise): a grid of scalars.
generate_noise_map(noise, shape) ==
  LET pad == IF shape = "per_vertex" THEN 1 ELSE 0
  IN [ n_rows |-> noise.size[1] + pad,
       n_cols |-> noise.size[2] + pad,
       seed   |-> noise.seed ]

\* noise_values[i][j] is inside the grid.
InBounds(grid, i, j) == i < grid.n_rows /\ j < grid.n_cols

\* --------------------------------------------------------------- gradient
\* The colors and the domain collected from the regions.
RegionColors(regions) == [k \in 1..Len(regions) |-> regions[k].color]
RegionDomain(regions) == [k \in 1..Len(regions) |-> regions[k].position]

\* The evenly spaced domain of a gradient built without .domain().
EvenDomain(n) ==
  [k \in 1..n |-> IF n = 1 THEN 0 ELSE ((k - 1) * 100) \div (n - 1)]

DeclaredGradient(regions) ==
  [kind |-> "declared", domain |-> RegionDomain(regions), colors |-> RegionColors(regions)]

FallbackGradient(regions) ==
  [kind |-> "fallback", domain |-> EvenDomain(Len(regions)), colors |-> RegionColors(regions)]

\* .build().unwrap_or(<fallback>.build().expect(..)): the argument of
\* unwrap_or is evaluated before unwrap_or is called, so the fallback is
\* built, and its failure panics, whatever the declared build returned.
GradientPanics(decl_ok, fallback_ok) == ~fallback_ok

BuildGradient(regions, decl_ok) ==
  IF decl_ok THEN DeclaredGradient(regions) ELSE FallbackGradient(regions)

Lerp(a, b, num, den) == a + ((b - a) * num) \div den

\* grad.at(t): piecewise linear between the control points, the edge
\* colour outside the domain.
GradAt(grad, t) ==
  LET n == Len(grad.colors)
      d == grad.domain
  IN IF n = 0 THEN <<0, 0, 0, 255>>
     ELSE IF t <= d[1] THEN grad.colors[1]
     ELSE IF t >= d[n] THEN grad.colors[n]
     ELSE LET k == CHOOSE s \in 1..(n - 1) : d[s] <= t /\ t < d[s + 1]
          IN [c \in 1..4 |->
                Lerp(grad.colors[k][c], grad.colors[k + 1][c], t - d[k], d[k + 1] - d[k])]

\* The gradient image: column x holds grad.at(x * 100 / width).
GradientImage(grad, size) ==
  [ size |-> size,
    columns |-> [x \in 1..size[1] |-> GradAt(grad, ((x - 1) * 100) \div size[1])] ]

\* ------------------------------------------------------------ mesh builder
Rows(terrain) == terrain.size[1] * terrain.resolution + 1
Cols(terrain) == terrain.size[2] * terrain.resolution + 1

\* height_value = max(0, noise_value - sea_percent) / 100, in hundredths.
HeightValueNoClamp(noise_value, sea_percent) == noise_value - sea_percent
HeightValue(noise_value, sea_percent) == Max(0, noise_value - sea_percent)

\* y = ((height_value * 1.2).powf(height_exponent) - 0.5) * 2.0, with
\* height_value * 1.2 = (3 * hundredths) / 250.
ShapedHeightNoShift(height_value, height_exponent) ==
  << 2 * Pow(3 * height_value, height_exponent), Pow(250, height_exponent) >>
ShapedHeight(height_value, height_exponent) ==
  << 2 * Pow(3 * height_value, height_exponent) - Pow(250, height_exponent),
     Pow(250, height_exponent) >>

\* (k / resolution - (size + 1) / 2) + 0.5
Coord(k, resolution, size) == << 2 * k - resolution * size, 2 * resolution >>

\* The value whose colour a vertex takes.
ColorSample(noise_value, sea_percent) == noise_value

\* The body of the vertex loop at (i, j).
Vertex(terrain, grid, grad, i, j) ==
  LET noise_value == NoiseValue(grid.seed, i, j)
      height_value == HeightValue(noise_value, terrain.sea_percent)
  IN [ position |-> << Coord(i, terrain.resolution, terrain.size[1]),
                       ShapedHeight(height_value, terrain.height_exponent),
                       Coord(j, terrain.resolution, terrain.size[2]) >>,
       normal   |-> <<0, 1, 0>>,
       uv       |-> <<i, j>>,
       color    |-> GradAt(grad, ColorSample(noise_value, terrain.sea_percent)),
       height_value |-> height_value ]

\* for j in 0..cols
RECURSIVE VertexRow(_, _, _, _, _, _)
VertexRow(terrain, grid, grad, i, j, cols) ==
  IF j >= cols THEN <<>>
  ELSE <<Vertex(terrain, grid, grad, i, j)>> \o VertexRow(terrain, grid, grad, i, j + 1, cols)

\* for i in 0..rows
RECURSIVE VertexLoop(_, _, _, _, _, _)
VertexLoopShort(terrain, grid, grad, i, rows, cols) ==
  IF i >= rows - 1 THEN <<>>
  ELSE VertexRow(terrain, grid, grad, i, 0, cols)
         \o VertexLoop(terrain, grid, grad, i + 1, rows, cols)
VertexLoop(terrain, grid, grad, i, rows, cols) ==
  IF i >= rows THEN <<>>
  ELSE VertexRow(terrain, grid, grad, i, 0, cols)
         \o VertexLoop(terrain, grid, grad, i + 1, rows, cols)

\* Every noise_values[i][j] the vertex loop reads is inside the grid.
ReadsInBounds(grid, rows, cols) ==
  \A i \in 0..(rows - 1) : \A j \in 0..(cols - 1) : InBounds(grid, i, j)

\* The two triangles of cell (i, j).
CellSwapped(i, j, rows, cols) ==
  LET current == i * cols + j
      next_row == (i + 1) * cols + j
  IN << current, next_row, current + 1, next_row, current + 1, next_row + 1 >>
Cell(i, j, rows, cols) ==
  LET current == i * cols + j
      next_row == (i + 1) * cols + j
  IN << current, current + 1, next_row, next_row, current + 1, next_row + 1 >>

\* for j in 0..(cols - 1)
RECURSIVE IndexRow(_, _, _, _)
IndexRow(i, j, rows, cols) ==
  IF j >= cols - 1 THEN <<>>
  ELSE Cell(i, j, rows, cols) \o IndexRow(i, j + 1, rows, cols)

\* for i in 0..(rows - 1)
RECURSIVE IndexLoop(_, _, _)
IndexLoop(i, rows, cols) ==
  IF i >= rows - 1 THEN <<>>
  ELSE IndexRow(i, 0, rows, cols) \o IndexLoop(i + 1, rows, cols)

\* for j in &[0, 1, 1, 2, 2, 0] { indices.push(cloned_indices[i * 3 + j]) }
EdgeOffsetsShared == <<0, 1, 1, 2>>
EdgeOffsets == <<0, 1, 1, 2, 2, 0>>

TriangleEdges(cloned_indices, i) ==
  [k \in 1..Len(EdgeOffsets) |-> cloned_indices[i * 3 + EdgeOffsets[k] + 1]]

\* for i in 0..triangle_number
RECURSIVE WireframeLoop(_, _, _)
WireframeLoop(cloned_indices, i, triangle_number) ==
  IF i >= triangle_number THEN <<>>
  ELSE TriangleEdges(cloned_indices, i)
         \o WireframeLoop(cloned_indices, i + 1, triangle_number)

Wireframe(indices) == WireframeLoop(indices, 0, Len(indices) \div 3)

\* The mesh of one run, with the height_value of every vertex beside it.
BuildMesh(terrain, grid, grad) ==
  LET rows == Rows(terrain)
      cols == Cols(terrain)
      vs == VertexLoop(terrain, grid, grad, 0, rows, cols)
      tri == IndexLoop(0, rows, cols)
  IN [ topology  |-> IF terrain.wireframe THEN "LineList" ELSE "TriangleList",
       indices   |-> IF terrain.wireframe THEN Wireframe(tri) ELSE tri,
       positions |-> [k \in 1..Len(vs) |-> vs[k].position],
       normals   |-> [k \in 1..Len(vs) |-> vs[k].normal],
       colors    |-> [k \in 1..Len(vs) |-> vs[k].color],
       uvs       |-> [k \in 1..Len(vs) |-> vs[k].uv],
       height_values |-> [k \in 1..Len(vs) |-> vs[k].height_value] ]

\* if terrain.export { export_terrain(..); terrain.export = false; }
ExportCalls(terrain) == IF terrain.export THEN 1 ELSE 0

AfterExportKeepsFlag(terrain) == terrain
AfterExport(terrain) == IF terrain.export THEN [terrain EXCEPT !.export = FALSE] ELSE terrain

\* ------------------------------------------------------------------- Init
NoRun ==
  [ outcome |-> "none", decl_ok |-> FALSE, fallback_ok |-> FALSE, convert |-> "not_reached",
    grad |-> "none", grid_rows |-> 0, grid_cols |-> 0, rows |-> 0, cols |-> 0,
    completed |-> 0 ]

\* A Terrain component. noise.gradient.segments is held at 0, the branch
\* of generate_terrain that keeps the gradient continuous.
NewTerrain(size, resolution, wireframe, height_exponent, sea_percent, regions) ==
  [ size |-> size, resolution |-> resolution, wireframe |-> wireframe,
    height_exponent |-> height_exponent, sea_percent |-> sea_percent, export |-> FALSE,
    noise |-> [ size |-> <<0, 0>>, seed |-> 0, regions |-> regions,
                gradient |-> [ size |-> GradientSize, segments |-> 0, image |-> 0 ] ] ]

\* A world of one entity explores the parameters of the mesh builder.
WideTerrains ==
  { NewTerrain(<<w, d>>, r, wf, e, s, rg) :
      w \in 0..MaxWidth, d \in 0..MaxDepth, r \in 0..MaxRes, wf \in BOOLEAN,
      e \in Exponents, s \in SeaLevels,
      rg \in { x \in RegionLists : Len(x) > 0 } }

\* A world of several entities explores the configurations that decide
\* how one entity's rebuild bears on the others.
NarrowTerrains ==
  { NewTerrain(<<1, 1>>, r, FALSE, 1, 0, rg) : r \in 0..1, rg \in RegionLists }

Init ==
  /\ \E n \in WorldSizes :
       terrains \in [1..n -> IF n = 1 THEN WideTerrains ELSE NarrowTerrains]
  /\ mesh_handle = [e \in DOMAIN terrains |-> 0]
  /\ materials = [e \in DOMAIN terrains |-> "custom"]
  /\ meshes = <<>>
  /\ images = <<>>
  /\ next_id = 1
  /\ cursor = 0
  /\ tick = 0
  /\ panicked = "none"
  /\ failed_at = 0
  /\ rebuilt = {}
  /\ noise_calls = [e \in DOMAIN terrains |-> 0]
  /\ exported = [e \in DOMAIN terrains |-> 0]
  /\ runs = [e \in DOMAIN terrains |-> NoRun]

\* ---------------------------------------------------------------- actions
\* The schedule runs the Update systems: generate_terrain starts its walk.
Update ==
  /\ panicked = "none"
  /\ cursor = 0
  /\ tick < MaxTicks
  /\ tick' = tick + 1
  /\ cursor' = 1
  /\ rebuilt' = {}
  /\ UNCHANGED << terrains, mesh_handle, materials, meshes, images, next_id,
                  panicked, failed_at, noise_calls, exported, runs >>

\* Replace the asset a handle stood for by a fresh one.
AddAsset(assets, old, id, asset) ==
  [h \in ((DOMAIN assets) \ {old}) \cup {id} |-> IF h = id THEN asset ELSE assets[h]]

\* The body of `for (mut terrain, mut mesh_handle, material) in &mut query`
\* for the entity at the cursor.
GenerateTerrain ==
  /\ panicked = "none"
  /\ cursor \in DOMAIN terrains
  /\ \E shape \in NoiseGridShapes, decl_ok \in BOOLEAN, fallback_ok \in BOOLEAN,
        convert_ok \in BOOLEAN :
       LET e == cursor
           t0 == terrains[e]
           t1 == [t0 EXCEPT !.noise.size =
                    << t0.size[1] * t0.resolution, t0.size[2] * t0.resolution >>]
           grid == generate_noise_map(t1.noise, shape)
           grad == BuildGradient(t1.noise.regions, decl_ok)
           rows == Rows(t1)
           cols == Cols(t1)
           seen == [ runs[e] EXCEPT !.decl_ok = decl_ok, !.fallback_ok = fallback_ok,
                       !.grid_rows = grid.n_rows, !.grid_cols = grid.n_cols,
                       !.convert = "not_reached", !.grad = "none",
                       !.rows = 0, !.cols = 0 ]
       IN /\ materials' = [materials EXCEPT ![e] = "default"]
          /\ noise_calls' = [noise_calls EXCEPT ![e] = @ + 1]
          /\ IF GradientPanics(decl_ok, fallback_ok)
             THEN /\ panicked' = "Gradient generation failed"
                  /\ failed_at' = e
                  /\ terrains' = [terrains EXCEPT ![e] = t1]
                  /\ runs' = [runs EXCEPT ![e] = [seen EXCEPT !.outcome = "panic"]]
                  /\ UNCHANGED << mesh_handle, meshes, images, next_id, cursor,
                                  rebuilt, exported >>
             ELSE IF ~convert_ok
             THEN /\ panicked' = "Could not convert to Rgba8UnormSrgb"
                  /\ failed_at' = e
                  /\ terrains' = [terrains EXCEPT ![e] = t1]
                  /\ runs' = [runs EXCEPT ![e] =
                       [seen EXCEPT !.outcome = "panic", !.convert = "failed",
                                    !.grad = grad.kind]]
                  /\ UNCHANGED << mesh_handle, meshes, images, next_id, cursor,
                                  rebuilt, exported >>
             ELSE LET image_id == next_id
                      t2 == [t1 EXCEPT !.noise.gradient.image = image_id]
                      images2 == AddAsset(images, t0.noise.gradient.image, image_id,
                                          GradientImage(grad, t1.noise.gradient.size))
                      seen2 == [seen EXCEPT !.convert = "ok", !.grad = grad.kind,
                                            !.rows = rows, !.cols = cols]
                  IN /\ images' = images2
                     /\ IF ~ReadsInBounds(grid, rows, cols)
                        THEN /\ panicked' = "index out of bounds"
                             /\ failed_at' = e
                             /\ terrains' = [terrains EXCEPT ![e] = t2]
                             /\ next_id' = next_id + 1
                             /\ runs' = [runs EXCEPT ![e] = [seen2 EXCEPT !.outcome = "panic"]]
                             /\ UNCHANGED << mesh_handle, meshes, cursor, rebuilt, exported >>
                        ELSE LET mesh_id == next_id + 1
                             IN /\ meshes' = AddAsset(meshes, mesh_handle[e], mesh_id,
                                                      BuildMesh(t2, grid, grad))
                                /\ mesh_handle' = [mesh_handle EXCEPT ![e] = mesh_id]
                                /\ next_id' = next_id + 2
                                /\ exported' = [exported EXCEPT ![e] = @ + ExportCalls(t2)]
                                /\ terrains' = [terrains EXCEPT ![e] = AfterExport(t2)]
                                /\ rebuilt' = rebuilt \cup {e}
                                /\ runs' = [runs EXCEPT ![e] =
                                     [seen2 EXCEPT !.outcome = "done",
                                                   !.completed = @ + 1]]
                                /\ cursor' = IF e = Len(terrains) THEN 0 ELSE e + 1
                                /\ UNCHANGED << panicked, failed_at >>
  /\ UNCHANGED tick

\* Outside the system (a UI, another system) the export flag is raised.
SetExport ==
  /\ panicked = "none"
  /\ cursor = 0
  /\ \E e \in DOMAIN terrains :
       /\ ~terrains[e].export
       /\ terrains' = [terrains EXCEPT ![e].export = TRUE]
  /\ UNCHANGED << mesh_handle, materials, meshes, images, next_id, cursor, tick,
                  panicked, failed_at, rebuilt, noise_calls, exported, runs >>

Next == Update \/ GenerateTerrain \/ SetExport

Spec == Init /\ [][Next]_vars

\* ----------------------------------------------------------------- claims
\* The last pass of entity e through the loop body ran to its end, so the
\* mesh behind its handle is the one that pass built.
Built(e) == runs[e].outcome = "done"
MeshOf(e) == meshes[mesh_handle[e]]
GradOf(e) == BuildGradient(terrains[e].noise.regions, runs[e].grad = "declared")

\* C1: a run with wireframe = false leaves rows*cols entries in each of
\* positions, normals, uvs and colors, and 6*(rows-1)*(cols-1) indices,
\* where rows = w*r + 1 and cols = d*r + 1.
C1_BufferSizes ==
  \A e \in DOMAIN terrains :
    (Built(e) /\ ~terrains[e].wireframe) =>
      LET rows == terrains[e].size[1] * terrains[e].resolution + 1
          cols == terrains[e].size[2] * terrains[e].resolution + 1
          m == MeshOf(e)
      IN /\ Len(m.positions) = rows * cols
         /\ Len(m.normals) = rows * cols
         /\ Len(m.uvs) = rows * cols
         /\ Len(m.colors) = rows * cols
         /\ Len(m.indices) = 6 * (rows - 1) * (cols - 1)

\* C1 witness: size [1,1], resolution 2 built 9 vertices and 24 indices.
C1_Witness ==
  \E e \in DOMAIN terrains :
    /\ Built(e) /\ ~terrains[e].wireframe
    /\ terrains[e].size = <<1, 1>> /\ terrains[e].resolution = 2
    /\ Len(MeshOf(e).positions) = 9
    /\ Len(MeshOf(e).indices) = 24

\* C2: with wireframe set, the index buffer holds, for each triangle k of
\* the triangle list T in order, T[3k], T[3k+1], T[3k+1], T[3k+2], T[3k+2],
\* T[3k]; its length is 2*len(T), shared edges are kept.
C2_WireframeEdges ==
  \A e \in DOMAIN terrains :
    (Built(e) /\ terrains[e].wireframe) =>
      LET T == IndexLoop(0, Rows(terrains[e]), Cols(terrains[e]))
          L == MeshOf(e).indices
      IN /\ MeshOf(e).topology = "LineList"
         /\ Len(L) = 2 * Len(T)
         /\ \A k \in 0..((Len(T) \div 3) - 1) :
              /\ L[6 * k + 1] = T[3 * k + 1]
              /\ L[6 * k + 2] = T[3 * k + 2]
              /\ L[6 * k + 3] = T[3 * k + 2]
              /\ L[6 * k + 4] = T[3 * k + 3]
              /\ L[6 * k + 5] = T[3 * k + 3]
              /\ L[6 * k + 6] = T[3 * k + 1]

\* C2 witness: the wireframe of the 3x3 grid has 48 indices, and the edge
\* (1,3) shared by the two triangles of the first cell appears twice.
C2_Witness ==
  \E e \in DOMAIN terrains :
    /\ Built(e) /\ terrains[e].wireframe
    /\ terrains[e].size = <<1, 1>> /\ terrains[e].resolution = 2
    /\ Len(MeshOf(e).indices) = 48
    /\ SubSeq(MeshOf(e).indices, 1, 12) = <<0, 1, 1, 3, 3, 0, 3, 1, 1, 4, 4, 3>>

\* C3: export is one-shot. A run that ends and started with export = true
\* calls export_terrain once and leaves export = false; a run that started
\* with export = false calls it zero times; nothing else calls it, and only
\* a step outside the system raises the flag.
C3_ExportOneShot ==
  [][\A e \in DOMAIN terrains :
       LET ran == runs'[e].completed = runs[e].completed + 1
       IN /\ (ran /\ terrains[e].export) =>
               (exported'[e] = exported[e] + 1 /\ ~terrains'[e].export)
          /\ (ran /\ ~terrains[e].export) =>
               (exported'[e] = exported[e] /\ ~terrains'[e].export)
          /\ ~ran => exported'[e] = exported[e]
          /\ (terrains'[e].export /\ ~terrains[e].export) => (~ran /\ cursor = 0)]_vars

\* C3 witness: two runs of one entity have ended, the export flag was
\* raised before one of them, and export_terrain was called once.
C3_Witness ==
  \E e \in DOMAIN terrains :
    /\ runs[e].completed = 2
    /\ exported[e] = 1
    /\ ~terrains[e].export

\* C4: in triangle mode the index buffer is the concatenation over cells
\* (i,j), i outer, j inner, of (current, current+1, nextRow, nextRow,
\* current+1, nextRow+1), and every index is less than rows*cols.
C4_TriangleIndices ==
  \A e \in DOMAIN terrains :
    (Built(e) /\ ~terrains[e].wireframe) =>
      LET rows == terrains[e].size[1] * terrains[e].resolution + 1
          cols == terrains[e].size[2] * terrains[e].resolution + 1
          T == MeshOf(e).indices
      IN /\ MeshOf(e).topology = "TriangleList"
         /\ \A k \in 1..Len(T) : T[k] >= 0 /\ T[k] < rows * cols
         /\ \A i \in 0..(rows - 2) : \A j \in 0..(cols - 2) :
              LET base == 6 * (i * (cols - 1) + j)
                  current == i * cols + j
                  nextRow == (i + 1) * cols + j
              IN /\ base + 6 <= Len(T)
                 /\ T[base + 1] = current
                 /\ T[base + 2] = current + 1
                 /\ T[base + 3] = nextRow
                 /\ T[base + 4] = nextRow
                 /\ T[base + 5] = current + 1
                 /\ T[base + 6] = nextRow + 1

\* C4 witness: the 2x3 grid (size [1,2], resolution 1) built its two cells.
C4_Witness ==
  \E e \in DOMAIN terrains :
    /\ Built(e) /\ ~terrains[e].wireframe
    /\ terrains[e].size = <<1, 2>> /\ terrains[e].resolution = 1
    /\ MeshOf(e).indices = <<0, 1, 3, 3, 1, 4, 1, 2, 4, 4, 2, 5>>

\* C5: a panic of one entity's rebuild (both gradient builds failing, or
\* the image conversion failing) leaves every other entity of the tick
\* rebuilt.
C5_OthersStillRebuilt ==
  (panicked \in {"Gradient generation failed", "Could not convert to Rgba8UnormSrgb"}) =>
    \A e \in DOMAIN terrains : e # failed_at => e \in rebuilt

\* C6: with resolution = 0 or an empty region list generate_noise_map is
\* never called and no mesh or image handle of the entity is replaced.
C6_InvalidConfigRejected ==
  \A e \in DOMAIN terrains :
    (terrains[e].resolution = 0 \/ Len(terrains[e].noise.regions) = 0) =>
      /\ noise_calls[e] = 0
      /\ mesh_handle[e] = 0
      /\ terrains[e].noise.gradient.image = 0

\* C7: the gradient is fatal only when both builds fail: when the declared
\* build succeeds its gradient is used whatever the fallback build does;
\* when it fails and the fallback build succeeds the fallback is used.
C7_GradientFatalOnlyWhenBothFail ==
  \A e \in DOMAIN terrains :
    runs[e].outcome # "none" =>
      LET gradient_panic == failed_at = e /\ panicked = "Gradient generation failed"
      IN /\ runs[e].decl_ok => ~gradient_panic
         /\ (runs[e].decl_ok /\ runs[e].grad # "none") => runs[e].grad = "declared"
         /\ (~runs[e].decl_ok /\ runs[e].fallback_ok) =>
              (~gradient_panic /\ runs[e].grad \in {"none", "fallback"})
         /\ gradient_panic => (~runs[e].decl_ok /\ ~runs[e].fallback_ok)

\* C8 as stated: every vertex has heightShaped in [-2, 1.88] for every
\* heightRaw in [0,1] and every heightExponent >= 0.
C8_HeightShapedRange ==
  \A e \in DOMAIN terrains :
    Built(e) =>
      \A k \in 1..Len(MeshOf(e).positions) :
        LET y == MeshOf(e).positions[k][2]
        IN /\ MeshOf(e).height_values[k] \in 0..100
           /\ -2 * y[2] <= y[1]
           /\ 25 * y[1] <= 47 * y[2]

\* C8 amended: heightShaped is at least -2 for every exponent >= 0, and at
\* most 1.88 for every exponent from 0 to 2.
C8_HeightShapedRangeUpToSquare ==
  \A e \in DOMAIN terrains :
    Built(e) =>
      \A k \in 1..Len(MeshOf(e).positions) :
        LET y == MeshOf(e).positions[k][2]
        IN /\ MeshOf(e).height_values[k] \in 0..100
           /\ -2 * y[2] <= y[1]
           /\ terrains[e].height_exponent <= 2 => 25 * y[1] <= 47 * y[2]

\* C8 witness: exponent 2 on heightRaw = 1 reaches 1.88 exactly.
C8_Witness ==
  \E e \in DOMAIN terrains :
    /\ Built(e) /\ terrains[e].height_exponent = 2
    /\ \E k \in 1..Len(MeshOf(e).positions) :
         /\ MeshOf(e).height_values[k] = 100
         /\ MeshOf(e).positions[k][2] = <<117500, 62500>>

\* C9: heightRaw = max(0, noise - seaPercent) / 100: 0 for noise at or
\* below seaPercent, (noise - seaPercent)/100 above it; the colour of the
\* vertex is the gradient at the raw noise value.
C9_SeaLevelClamp ==
  \A e \in DOMAIN terrains :
    Built(e) =>
      LET cols == terrains[e].size[2] * terrains[e].resolution + 1
          sea == terrains[e].sea_percent
      IN \A k \in 1..Len(MeshOf(e).positions) :
           LET n == NoiseValue(terrains[e].noise.seed, (k - 1) \div cols, (k - 1) % cols)
           IN /\ MeshOf(e).height_values[k] = IF n <= sea THEN 0 ELSE n - sea
              /\ MeshOf(e).colors[k] = GradAt(GradOf(e), n)

\* C9 witness: with seaPercent 50 one vertex of noise 30 has heightRaw 0
\* and one of noise 80 has heightRaw 0.3, and the flattened vertex keeps
\* the colour of noise 30, which is not the colour of noise 0.
C9_Witness ==
  \E e \in DOMAIN terrains :
    /\ Built(e) /\ terrains[e].sea_percent = 50
    /\ \E k1, k2 \in 1..Len(MeshOf(e).positions) :
         LET cols == Cols(terrains[e])
             n1 == NoiseValue(terrains[e].noise.seed, (k1 - 1) \div cols, (k1 - 1) % cols)
             n2 == NoiseValue(terrains[e].noise.seed, (k2 - 1) \div cols, (k2 - 1) % cols)
         IN /\ n1 = 30 /\ MeshOf(e).height_values[k1] = 0
            /\ n2 = 80 /\ MeshOf(e).height_values[k2] = 30
            /\ runs[e].grad = "declared"
            /\ MeshOf(e).colors[k1] # GradAt(GradOf(e), 0)

\* C10: every noise_values[i][j] the vertex loop reads lies inside the
\* grid the noise collaborator returned.
C10_NoiseReadsInBounds ==
  \A e \in DOMAIN terrains :
    runs[e].rows > 0 =>
      /\ runs[e].rows <= runs[e].grid_rows
      /\ runs[e].cols <= runs[e].grid_cols

====
